---- MODULE Spec2Model ----
(***************************************************************************)
(* The two CitiBike dashboards, notebooks/st_dashboard.py ("dash1") and    *)
(* notebooks/st_dashboard_Part_2.py ("dash2"), as one state machine: a run *)
(* of a script reads the trip CSV, computes the aggregates of the selected *)
(* page and renders the footer.  The pandas operations the scripts call    *)
(* (read_csv, to_datetime, dropna, groupby/size/mean/agg, sort_values,     *)
(* head, nlargest, merge) are operators over small tables.                 *)
(***************************************************************************)
EXTENDS Integers, Sequences, FiniteSets, TLC

VARIABLES script, page, csv, mapFile, pc, df, topN, top_stations, daily_data,
          df_map, computed, displayed, reports, footer

vars == <<script, page, csv, mapFile, pc, df, topN, top_stations, daily_data,
          df_map, computed, displayed, reports, footer>>

(***************************************************************************)
(* Bounds of the model.                                                    *)
(***************************************************************************)
\* Longest trip table read from the CSV.
MaxRows == 3
\* Largest n tried for the top-n cut besides the dashboards' own 20.
MaxN == 2

(***************************************************************************)
(* Cells.  A missing value (NaN, NaT, None) is NA; the other cells carry   *)
(* their kind, so that cells of different kinds are never ordered.         *)
(***************************************************************************)
NA == [k |-> "na"]
Str(s) == [k |-> "str", s |-> s]
Num(n) == [k |-> "num", n |-> n]
\* pandas.Timestamp, in minutes since 2022-01-01 00:00.
Ts(t) == [k |-> "ts", t |-> t]
\* datetime.date, in days since 2022-01-01.
Day(d) == [k |-> "date", d |-> d]
\* A float mean num/den, in lowest terms.
Frac(num, den) == [k |-> "frac", num |-> num, den |-> den]

MinutesPerDay == 24 * 60

Min(a, b) == IF a <= b THEN a ELSE b

Range(s) == {s[i] : i \in 1..Len(s)}

RECURSIVE Gcd(_, _)
Gcd(a, b) == IF b = 0 THEN a ELSE Gcd(b, a % b)

(***************************************************************************)
(* Order of cells of one kind, as groupby's sort of the group keys uses    *)
(* it.  Station names are ordered as Python orders the strings.            *)
(***************************************************************************)
StrOrder == <<"A", "B", "C">>
StrRank(s) == CHOOSE i \in 1..Len(StrOrder) : StrOrder[i] = s

CellLess(a, b) ==
    CASE a.k = "str" /\ b.k = "str" -> StrRank(a.s) < StrRank(b.s)
      [] a.k = "num" /\ b.k = "num" -> a.n < b.n
      [] a.k = "ts" /\ b.k = "ts" -> a.t < b.t
      [] a.k = "date" /\ b.k = "date" -> a.d < b.d
      [] OTHER -> FALSE

\* Lexicographic order of two key tuples of the same length.
KeyLess(x, y) ==
    \E i \in 1..Len(x) :
        /\ \A j \in 1..(i - 1) : x[j] = y[j]
        /\ CellLess(x[i], y[i])

RECURSIVE SortKeys(_)
SortKeys(S) ==
    IF S = {} THEN <<>>
    ELSE LET m == CHOOSE m \in S : \A o \in S \ {m} : KeyLess(m, o)
         IN <<m>> \o SortKeys(S \ {m})

(***************************************************************************)
(* Tables.  A DataFrame is its set of columns and its rows, each row a     *)
(* function from the columns to cells.                                     *)
(***************************************************************************)
Frame(cols, rows) == [columns |-> cols, rows |-> rows]

\* DataFrame.empty: an axis of length 0.
df_empty(d) == d.columns = {} \/ Len(d.rows) = 0

\* df[col] = value for every row (a new column, or an overwritten one).
df_assign(d, col, cells) ==
    Frame(d.columns \cup {col},
          [i \in 1..Len(d.rows) |->
              [c \in d.columns \cup {col} |->
                  IF c = col THEN cells[i] ELSE d.rows[i][c]]])

RECURSIVE SelectSeq2(_, _)
\* The rows of s at the positions in keep, in order.
SelectSeq2(s, keep) ==
    IF s = <<>> THEN <<>>
    ELSE LET n == Len(s)
             front == SelectSeq2(SubSeq(s, 1, n - 1), keep)
         IN IF n \in keep THEN Append(front, s[n]) ELSE front

\* DataFrame.dropna(subset=[col]).
dropna(d, col) ==
    Frame(d.columns, SelectSeq2(d.rows, {i \in 1..Len(d.rows) : d.rows[i][col] # NA}))

(***************************************************************************)
(* pandas.to_datetime.  The texts the model feeds it and the timestamps    *)
(* they denote; every other text does not parse.                           *)
(***************************************************************************)
ParseText(s) ==
    CASE s = "2022-01-01 08:00:00" -> Ts(8 * 60)
      [] s = "2022-01-01 17:30:00" -> Ts(17 * 60 + 30)
      [] s = "2022-01-02 08:00:00" -> Ts(MinutesPerDay + 8 * 60)
      [] OTHER -> NA

\* to_datetime of one cell with errors="coerce": NaN and unparseable text give NaT.
to_datetime_coerce(c) == IF c = NA THEN NA ELSE ParseText(c.s)

\* A variant of to_datetime_raises that also rejects a column without rows.
to_datetime_raises_on_empty(rows, col) ==
    \/ rows = <<>>
    \/ \E i \in 1..Len(rows) : rows[i][col] # NA /\ ParseText(rows[i][col].s) = NA
\* to_datetime(column) with the default errors="raise" raises on unparseable text.
to_datetime_raises(rows, col) ==
    \E i \in 1..Len(rows) : rows[i][col] # NA /\ ParseText(rows[i][col].s) = NA

\* Series.dt.date: the calendar day of a timestamp, NaT kept.
dt_date(c) == IF c = NA THEN NA ELSE Day(c.t \div MinutesPerDay)

(***************************************************************************)
(* groupby(keys) with the defaults sort=True, dropna=True: rows with a     *)
(* missing value in any key belong to no group; groups come in key order.  *)
(***************************************************************************)
KeyOf(row, keys) == [j \in 1..Len(keys) |-> row[keys[j]]]

GroupedRows(rows, keys) ==
    {i \in 1..Len(rows) : \A j \in 1..Len(keys) : rows[i][keys[j]] # NA}

\* A variant with dropna=False: the rows with a missing key form a last group.
groupby_keepna(rows, keys) ==
    LET ks == SortKeys({KeyOf(rows[i], keys) : i \in GroupedRows(rows, keys)})
        nas == {i \in 1..Len(rows) : i \notin GroupedRows(rows, keys)}
        gs == [g \in 1..Len(ks) |->
                 [key |-> ks[g],
                  idx |-> {i \in GroupedRows(rows, keys) : KeyOf(rows[i], keys) = ks[g]}]]
    IN IF nas = {} THEN gs
       ELSE Append(gs, [key |-> [j \in 1..Len(keys) |-> NA], idx |-> nas])
\* groupby(keys) as the code calls it, with the defaults.
groupby(rows, keys) ==
    LET ks == SortKeys({KeyOf(rows[i], keys) : i \in GroupedRows(rows, keys)})
    IN [g \in 1..Len(ks) |->
          [key |-> ks[g],
           idx |-> {i \in GroupedRows(rows, keys) : KeyOf(rows[i], keys) = ks[g]}]]

\* The output row of one group: its key columns and one aggregate column.
GroupRow(keys, key, name, cell) ==
    [c \in Range(keys) \cup {name} |->
        IF c = name THEN cell
        ELSE key[CHOOSE j \in 1..Len(keys) : keys[j] = c]]

\* groupby(keys).size().reset_index(name=name), and groupby(keys, as_index=False).size()
\* followed by rename(columns={"size": name}).
groupby_size(rows, keys, name) ==
    LET gs == groupby(rows, keys)
    IN [g \in 1..Len(gs) |->
          GroupRow(keys, gs[g].key, name, Num(Cardinality(gs[g].idx)))]

RECURSIVE SumCells(_, _, _)
\* The sum of the numeric cells of column col over the rows at positions idx.
SumCells(rows, col, idx) ==
    IF idx = {} THEN 0
    ELSE LET i == CHOOSE i \in idx : TRUE
         IN (IF rows[i][col] = NA THEN 0 ELSE rows[i][col].n)
            + SumCells(rows, col, idx \ {i})

\* groupby(keys, as_index=False).agg({col: "sum"}).
groupby_sum(rows, keys, col) ==
    LET gs == groupby(rows, keys)
    IN [g \in 1..Len(gs) |->
          GroupRow(keys, gs[g].key, col, Num(SumCells(rows, col, gs[g].idx)))]

\* The mean of the non-missing cells, NaN when there is none.
MeanCell(rows, col, idx) ==
    LET have == {i \in idx : rows[i][col] # NA}
        total == SumCells(rows, col, have)
        n == Cardinality(have)
        g == Gcd(IF total < 0 THEN -total ELSE total, n)
    IN IF have = {} THEN NA ELSE Frac(total \div g, n \div g)

\* groupby(keys)[col].mean().reset_index(): a group whose cells are all
\* missing keeps its row, with a NaN mean.
groupby_mean(rows, keys, col) ==
    LET gs == groupby(rows, keys)
    IN [g \in 1..Len(gs) |->
          GroupRow(keys, gs[g].key, col, MeanCell(rows, col, gs[g].idx))]

(***************************************************************************)
(* Ordering and cutting the grouped table.                                 *)
(***************************************************************************)
\* The rows of t rearranged by the permutation p of its positions.
Permuted(t, p) == [i \in 1..Len(t) |-> t[p[i]]]

IsDescending(t, col) == \A i \in 1..(Len(t) - 1) : t[i][col].n >= t[i + 1][col].n

\* A variant of sort_values_desc with ascending=True.
sort_values_ascending(t, col) ==
    {Permuted(t, p) : p \in {q \in Permutations(1..Len(t)) :
        \A i \in 1..(Len(t) - 1) : t[q[i]][col].n <= t[q[i + 1]][col].n}}
\* sort_values(col, ascending=False).  The default kind is quicksort, which is
\* not stable: every arrangement that is descending by col is a possible result.
sort_values_desc(t, col) ==
    {Permuted(t, p) : p \in {q \in Permutations(1..Len(t)) :
        IsDescending(Permuted(t, q), col)}}

\* A variant of head that cuts one row late.
head_one_more(t, n) == SubSeq(t, 1, Min(n + 1, Len(t)))
\* DataFrame.head(n).
head(t, n) == SubSeq(t, 1, Min(n, Len(t)))

RECURSIVE nlargest_from(_, _, _, _)
\* Picks, n times, the first remaining position with the largest value of col.
nlargest_from(t, left, n, col) ==
    IF n = 0 \/ left = {} THEN <<>>
    ELSE LET best == CHOOSE i \in left :
                        \A o \in left \ {i} :
                            \/ t[i][col].n > t[o][col].n
                            \/ t[i][col].n = t[o][col].n /\ i < o
         IN <<t[best]>> \o nlargest_from(t, left \ {best}, n - 1, col)

\* DataFrame.nlargest(n, col) with the default keep="first": descending by col,
\* ties in their order of appearance.
nlargest(t, n, col) == nlargest_from(t, 1..Len(t), n, col)

(***************************************************************************)
(* pd.merge(left, right, on=col, how=...) of two tables whose col values   *)
(* are unique (both come from a groupby on col).  The result keeps the     *)
(* order of the left table.                                                *)
(***************************************************************************)
Matches(right, col, cell) == {j \in 1..Len(right) : right[j][col] = cell}

MergedRow(l, r, rcols) ==
    [c \in DOMAIN l \cup rcols |->
        IF c \in DOMAIN l THEN l[c] ELSE IF r = NA THEN NA ELSE r[c]]

\* how="left": every left row, with the right row's columns or NaN.
merge_left(left, right, col, rcols) ==
    [i \in 1..Len(left) |->
        LET m == Matches(right, col, left[i][col])
        IN MergedRow(left[i], IF m = {} THEN NA ELSE right[CHOOSE j \in m : TRUE], rcols)]

\* A variant of merge_inner that also drops the rows whose right columns are NaN.
merge_inner_notna(left, right, col, rcols) ==
    LET all == merge_left(left, right, col, rcols)
    IN SelectSeq2(all, {i \in 1..Len(all) : \A c \in rcols : all[i][c] # NA})
\* how="inner" (the default): the left rows that have a right row.
merge_inner(left, right, col, rcols) ==
    LET all == merge_left(left, right, col, rcols)
    IN SelectSeq2(all, {i \in 1..Len(left) : Matches(right, col, left[i][col]) # {}})

(***************************************************************************)
(* The trip CSV.  Its columns, and the rows the model draws tables from:   *)
(* each family varies the fields one aggregate reads and keeps the others  *)
(* at the values of BaseRow.                                               *)
(***************************************************************************)
CsvColumns ==
    {"date", "started_at", "start_station_name", "end_station_name",
     "start_lat", "start_lng", "end_lat", "end_lng", "avgTemp"}

BaseRow ==
    [c \in CsvColumns |->
        CASE c = "date" -> Str("2022-01-01 08:00:00")
          [] c = "started_at" -> Str("2022-01-01 08:00:00")
          [] c = "start_station_name" -> Str("A")
          [] c = "end_station_name" -> Str("B")
          [] c = "start_lat" -> Num(40)
          [] c = "start_lng" -> Num(-74)
          [] c = "end_lat" -> Num(41)
          [] c = "end_lng" -> Num(-73)
          [] OTHER -> Num(5)]

\* The date texts share one format, so that to_datetime's inference of the
\* format from the first value never decides whether a later one parses.
DateCells ==
    {NA, Str("not-a-date"), Str("2022-01-01 08:00:00"),
     Str("2022-01-01 17:30:00"), Str("2022-01-02 08:00:00")}

StationRows ==
    {[BaseRow EXCEPT !["start_station_name"] = s] : s \in {NA, Str("A"), Str("B"), Str("C")}}

DateRows ==
    {[BaseRow EXCEPT !["date"] = d, !["avgTemp"] = t] : d \in DateCells, t \in {NA, Num(5)}}

CoordRows ==
    {[BaseRow EXCEPT !["start_station_name"] = s, !["start_lat"] = a, !["start_lng"] = o] :
        s \in {NA, Str("A")}, a \in {NA, Num(40)}, o \in {NA, Num(-74)}}

RouteRows ==
    {[BaseRow EXCEPT !["end_station_name"] = s, !["end_lat"] = a, !["start_lat"] = o] :
        s \in {NA, Str("B")}, a \in {NA, Num(41)}, o \in {NA, Num(40)}}

StartedAtRows == {[BaseRow EXCEPT !["started_at"] = d] : d \in DateCells}

\* The row without the columns in gone.
Without(row, gone) == [c \in DOMAIN row \ gone |-> row[c]]

\* Every table of at most MaxRows rows drawn from rowset.
Tables(rowset) == UNION {[1..n -> rowset] : n \in 0..MaxRows}

\* A CSV the reader can read, and one it cannot (no file, no network).
Readable(cols, rows) == [readable |-> TRUE, columns |-> cols, rows |-> rows]
Unreadable == [readable |-> FALSE, columns |-> {}, rows |-> <<>>]

FullCsvs(rowset) == {Readable(CsvColumns, t) : t \in Tables(rowset)}

\* CSVs that lack the columns in gone.
PartialCsvs(rowset, gone) ==
    {Readable(CsvColumns \ gone, t) : t \in Tables({Without(r, gone) : r \in rowset})}

CsvInputs ==
    {Unreadable}
      \cup FullCsvs(StationRows) \cup FullCsvs(DateRows)
      \cup FullCsvs(CoordRows) \cup FullCsvs(RouteRows)
      \cup PartialCsvs(StartedAtRows, {"date"})
      \cup PartialCsvs({BaseRow}, {"date", "started_at"})
      \cup PartialCsvs({BaseRow}, {"start_station_name"})
      \cup PartialCsvs({BaseRow}, {"start_lat"})
      \cup PartialCsvs({BaseRow}, {"end_lng"})
      \cup PartialCsvs({BaseRow}, {"avgTemp"})

\* The CSVs of the runs that follow one another.
RunInputs ==
    {Unreadable}
      \cup FullCsvs({BaseRow, [BaseRow EXCEPT !["start_station_name"] = Str("B")]})

(***************************************************************************)
(* The saved Kepler map.  The HTML that save_to_html writes is determined  *)
(* by the table it is given.                                               *)
(***************************************************************************)
NoFile == [exists |-> FALSE]
Html(table) == [exists |-> TRUE, html |-> table]
NoDisplay == [shown |-> FALSE]
Shown(file) == [shown |-> TRUE, html |-> file.html]

Pages ==
    {"Introduction", "Weather and Bike Usage", "Most Popular Stations",
     "Interactive Map", "Recommendations"}

\* The n of the dashboards' top-n cut.
TopRows == 20
TopNValues == (0..MaxN) \cup {TopRows}

EmptyFrame == Frame({}, <<>>)

(***************************************************************************)
(* A run.  pc is the section of the script that runs next; "crashed" is a  *)
(* run stopped by an exception nothing caught.                             *)
(***************************************************************************)
RunStart(s, g) ==
    /\ script = s
    /\ page = g
    /\ pc = "load"
    /\ df = EmptyFrame
    /\ topN = TopRows
    /\ top_stations = <<>>
    /\ daily_data = <<>>
    /\ df_map = <<>>
    /\ computed = {}
    /\ displayed = NoDisplay
    /\ reports = {}
    /\ footer = FALSE

\* One run.  dash2 never looks at the map file; dash1 may find one saved by
\* an earlier run over an empty table.
Init ==
    /\ csv \in CsvInputs
    /\ \/ /\ mapFile \in {NoFile, Html(<<>>)}
          /\ RunStart("dash1", "none")
       \/ /\ mapFile = NoFile
          /\ \E g \in Pages : RunStart("dash2", g)

Crash ==
    /\ pc' = "crashed"
    /\ UNCHANGED <<df, topN, top_stations, daily_data, df_map, computed,
                   displayed, reports, footer>>

\* The date column parsed cell by cell.
ParsedDates(d, col) == [i \in 1..Len(d.rows) |-> to_datetime_coerce(d.rows[i][col])]

(***************************************************************************)
(* st_dashboard.py                                                         *)
(***************************************************************************)
\* load_data(): read_csv, then to_datetime on the date column.  Nothing
\* catches what they raise.
LoadData1 ==
    /\ script = "dash1" /\ pc = "load"
    /\ IF \/ ~csv.readable
          \/ "date" \notin csv.columns
          \/ to_datetime_raises(csv.rows, "date")
       THEN Crash
       ELSE /\ df' = df_assign(Frame(csv.columns, csv.rows), "date",
                               ParsedDates(csv, "date"))
            /\ pc' = "bar"
            /\ UNCHANGED <<topN, top_stations, daily_data, df_map, computed,
                           displayed, reports, footer>>
    /\ UNCHANGED <<script, page, csv, mapFile>>

\* The bar chart's table: groupby.size, sort_values descending, head.
TopStations1 ==
    /\ script = "dash1" /\ pc = "bar"
    /\ IF "start_station_name" \notin df.columns
       THEN Crash
       ELSE /\ \E n \in TopNValues :
                 \E sorted \in sort_values_desc(
                        groupby_size(df.rows, <<"start_station_name">>, "trip_count"),
                        "trip_count") :
                    /\ topN' = n
                    /\ top_stations' = head(sorted, n)
            /\ computed' = computed \cup {"top_stations"}
            /\ pc' = "daily"
            /\ UNCHANGED <<df, daily_data, df_map, displayed, reports, footer>>
    /\ UNCHANGED <<script, page, csv, mapFile>>

\* The line chart's table: trips per date merged with the mean temperature per date.
DailyData1 ==
    /\ script = "dash1" /\ pc = "daily"
    /\ IF "avgTemp" \notin df.columns
       THEN Crash
       ELSE /\ daily_data' =
                 merge_inner(groupby_size(df.rows, <<"date">>, "trip_count"),
                             groupby_mean(df.rows, <<"date">>, "avgTemp"),
                             "date", {"avgTemp"})
            /\ computed' = computed \cup {"daily_data"}
            /\ pc' = "map"
            /\ UNCHANGED <<df, topN, top_stations, df_map, displayed, reports, footer>>
    /\ UNCHANGED <<script, page, csv, mapFile>>

RouteKeys ==
    <<"start_station_name", "end_station_name", "start_lat", "start_lng",
      "end_lat", "end_lng">>

\* A variant of MapExists that never finds the file.
MapExistsNever == FALSE
\* os.path.exists(map_path).
MapExists == mapFile # NoFile

\* What the except clause of the map section leaves: an error on the page.
MapError == reports' = reports \cup {"Error loading Kepler map"}

\* The Kepler map section, inside try/except Exception.  Reading the saved
\* file, reading config.json and save_to_html may each fail.
KeplerMap1 ==
    /\ script = "dash1" /\ pc = "map"
    /\ pc' = "footer"
    /\ IF MapExists
       THEN /\ \E readOk \in BOOLEAN :
                 IF readOk
                 THEN /\ displayed' = Shown(mapFile)
                      /\ reports' = reports \cup {"Loaded your customized Kepler map"}
                 ELSE /\ displayed' = displayed
                      /\ MapError
            /\ UNCHANGED <<mapFile, df_map, computed>>
       ELSE IF ~(Range(RouteKeys) \subseteq df.columns)
       THEN /\ reports' = reports \cup {"No existing map found", "Error loading Kepler map"}
            /\ UNCHANGED <<mapFile, df_map, computed, displayed>>
       ELSE /\ df_map' = groupby_size(df.rows, RouteKeys, "trip_count")
            /\ computed' = computed \cup {"df_map"}
            /\ \E outcome \in {"saved", "no config", "save failed"} :
                 IF outcome = "saved"
                 THEN /\ mapFile' = Html(df_map')
                      /\ displayed' = Shown(mapFile')
                      /\ reports' = reports \cup {"No existing map found",
                                                  "New map generated and saved"}
                 ELSE /\ reports' = reports \cup {"No existing map found",
                                                  "Error loading Kepler map"}
                      /\ UNCHANGED <<mapFile, displayed>>
    /\ UNCHANGED <<script, page, csv, df, topN, top_stations, daily_data, footer>>

Footer1 ==
    /\ script = "dash1" /\ pc = "footer"
    /\ footer' = TRUE
    /\ pc' = "done"
    /\ UNCHANGED <<script, page, csv, mapFile, df, topN, top_stations, daily_data,
                   df_map, computed, displayed, reports>>

(***************************************************************************)
(* st_dashboard_Part_2.py                                                  *)
(***************************************************************************)
\* c.strip().replace(" ", "_").lower() on the column names of the CSV.
NormalizeName(c) == IF c = "avgTemp" THEN "avgtemp" ELSE c

NormalizeColumns(d) ==
    LET cols == {NormalizeName(c) : c \in d.columns}
    IN Frame(cols,
             [i \in 1..Len(d.rows) |->
                 [c \in cols |->
                     d.rows[i][CHOOSE o \in d.columns : NormalizeName(o) = c]]])

\* The frame load_data() returns when anything in it raised.
FallbackColumns ==
    {"date", "start_station_name", "start_lat", "start_lng", "avgtemp",
     "ride_id", "rideable_type", "member_casual"}

\* The "date" column load_data() creates: the parsed date column, else the
\* calendar day of started_at, else NaT.
WithDate(d) ==
    IF "date" \in d.columns
    THEN df_assign(d, "date", ParsedDates(d, "date"))
    ELSE IF "started_at" \in d.columns
    THEN df_assign(d, "date",
                   [i \in 1..Len(d.rows) |-> dt_date(ParsedDates(d, "started_at")[i])])
    ELSE df_assign(d, "date", [i \in 1..Len(d.rows) |-> NA])

\* load_data() and the try around its call: a read that fails is reported and
\* leaves an empty frame; rows without a date are dropped.
LoadData2 ==
    /\ script = "dash2" /\ pc = "load"
    /\ IF ~csv.readable
       THEN /\ df' = Frame(FallbackColumns, <<>>)
            /\ reports' = reports \cup {"Failed to load data"}
       ELSE /\ df' = dropna(WithDate(NormalizeColumns(Frame(csv.columns, csv.rows))),
                            "date")
            /\ reports' = reports \cup {"Data loaded successfully"}
    /\ pc' = "page"
    /\ UNCHANGED <<script, page, csv, mapFile, topN, top_stations, daily_data,
                   df_map, computed, displayed, footer>>

PageIntroduction ==
    /\ script = "dash2" /\ pc = "page" /\ page = "Introduction"
    /\ reports' = reports \cup
          {IF df_empty(df) THEN "No data loaded yet" ELSE "Preview of Loaded Data"}
    /\ pc' = "footer"
    /\ UNCHANGED <<script, page, csv, mapFile, df, topN, top_stations, daily_data,
                   df_map, computed, displayed, footer>>

PageWeather ==
    /\ script = "dash2" /\ pc = "page" /\ page = "Weather and Bike Usage"
    /\ IF df_empty(df)
       THEN /\ reports' = reports \cup {"No data available for analysis"}
            /\ UNCHANGED <<daily_data, computed>>
       ELSE /\ LET daily_trips == groupby_size(df.rows, <<"date">>, "trip_count")
               IN daily_data' =
                    IF "avgtemp" \in df.columns
                    THEN merge_left(daily_trips,
                                    groupby_mean(df.rows, <<"date">>, "avgtemp"),
                                    "date", {"avgtemp"})
                    ELSE [i \in 1..Len(daily_trips) |->
                            MergedRow(daily_trips[i], NA, {"avgtemp"})]
            /\ computed' = computed \cup {"daily_data"}
            /\ UNCHANGED reports
    /\ pc' = "footer"
    /\ UNCHANGED <<script, page, csv, mapFile, df, topN, top_stations, df_map,
                   displayed, footer>>

\* df["value"] = 1, then groupby.agg sum and nlargest.
PageStations ==
    /\ script = "dash2" /\ pc = "page" /\ page = "Most Popular Stations"
    /\ IF df_empty(df) \/ "start_station_name" \notin df.columns
       THEN /\ reports' = reports \cup {"Missing column 'start_station_name'"}
            /\ UNCHANGED <<df, topN, top_stations, computed>>
       ELSE /\ df' = df_assign(df, "value", [i \in 1..Len(df.rows) |-> Num(1)])
            /\ \E n \in TopNValues :
                 /\ topN' = n
                 /\ top_stations' =
                      nlargest(groupby_sum(df'.rows, <<"start_station_name">>, "value"),
                               n, "value")
            /\ computed' = computed \cup {"top_stations"}
            /\ UNCHANGED reports
    /\ pc' = "footer"
    /\ UNCHANGED <<script, page, csv, mapFile, daily_data, df_map, displayed, footer>>

StationKeys == <<"start_station_name", "start_lat", "start_lng">>

PageMap ==
    /\ script = "dash2" /\ pc = "page" /\ page = "Interactive Map"
    /\ IF df_empty(df) \/ ~(Range(StationKeys) \subseteq df.columns)
       THEN /\ reports' = reports \cup {"Missing required columns for map"}
            /\ UNCHANGED <<df_map, computed>>
       ELSE /\ df_map' = groupby_size(df.rows, StationKeys, "trip_count")
            /\ computed' = computed \cup {"df_map"}
            /\ UNCHANGED reports
    /\ pc' = "footer"
    /\ UNCHANGED <<script, page, csv, mapFile, df, topN, top_stations, daily_data,
                   displayed, footer>>

PageRecommendations ==
    /\ script = "dash2" /\ pc = "page" /\ page = "Recommendations"
    /\ pc' = "footer"
    /\ UNCHANGED <<script, page, csv, mapFile, df, topN, top_stations, daily_data,
                   df_map, computed, displayed, reports, footer>>

Footer2 ==
    /\ script = "dash2" /\ pc = "footer"
    /\ footer' = TRUE
    /\ pc' = "done"
    /\ UNCHANGED <<script, page, csv, mapFile, df, topN, top_stations, daily_data,
                   df_map, computed, displayed, reports>>

Next ==
    \/ LoadData1
    \/ TopStations1
    \/ DailyData1
    \/ KeplerMap1
    \/ Footer1
    \/ LoadData2
    \/ PageIntroduction
    \/ PageWeather
    \/ PageStations
    \/ PageMap
    \/ PageRecommendations
    \/ Footer2

Spec == Init /\ [][Next]_vars

(***************************************************************************)
(* Runs that follow one another on one machine: the saved map file stays,  *)
(* the CSV may have changed, and everything else starts afresh.            *)
(***************************************************************************)
InitRuns ==
    /\ csv \in RunInputs
    /\ mapFile = NoFile
    /\ \/ RunStart("dash1", "none")
       \/ \E g \in Pages : RunStart("dash2", g)

Rerun ==
    /\ pc \in {"done", "crashed"}
    /\ csv' \in RunInputs
    /\ mapFile' = mapFile
    /\ \/ script' = "dash1" /\ page' = "none"
       \/ script' = "dash2" /\ page' \in Pages
    /\ pc' = "load"
    /\ df' = EmptyFrame
    /\ topN' = TopRows
    /\ top_stations' = <<>>
    /\ daily_data' = <<>>
    /\ df_map' = <<>>
    /\ computed' = {}
    /\ displayed' = NoDisplay
    /\ reports' = {}
    /\ footer' = FALSE

NextRuns == Next \/ Rerun

SpecRuns == InitRuns /\ [][NextRuns]_vars

(***************************************************************************)
(* What the claims speak of, stated on the input rather than through the   *)
(* operators that compute the aggregates.                                  *)
(***************************************************************************)
Computed(a) == a \in computed

\* The column of the trip counts in top_stations.
CountColumn == IF script = "dash1" THEN "trip_count" ELSE "value"

RECURSIVE SumColumn(_, _)
SumColumn(t, col) ==
    IF t = <<>> THEN 0 ELSE t[1][col].n + SumColumn(Tail(t), col)

DistinctStations ==
    {df.rows[i]["start_station_name"] : i \in 1..Len(df.rows)} \ {NA}

\* The CSV column the start date comes from.
DateSource == IF "date" \in csv.columns THEN "date" ELSE "started_at"

\* The input trips whose start date parses.
ParseableTrips ==
    {i \in 1..Len(csv.rows) : to_datetime_coerce(csv.rows[i][DateSource]) # NA}

\* The calendar days on which the input trips with a parseable date start.
InputDays ==
    {to_datetime_coerce(csv.rows[i][DateSource]).t \div MinutesPerDay : i \in ParseableTrips}

\* The instant of a date cell of the daily series, in minutes.
Instant(c) == IF c.k = "ts" THEN c.t ELSE c.d * MinutesPerDay

\* The coordinates and the group keys of the map aggregate of the running script.
MapCoordinates ==
    IF script = "dash1" THEN {"start_lat", "start_lng", "end_lat", "end_lng"}
    ELSE {"start_lat", "start_lng"}
MapKeys == IF script = "dash1" THEN RouteKeys ELSE StationKeys

\* The rows of the trip table with a missing value in one of the columns cols.
RowsMissing(cols) == {i \in 1..Len(df.rows) : \E c \in cols : df.rows[i][c] = NA}

\* C1: for a non-empty trip table, the top-stations aggregate has exactly
\* min(n, number of distinct start-station names) rows.
C1_TopStationsLength ==
    (Computed("top_stations") /\ df.rows # <<>>)
        => Len(top_stations) = Min(topN, Cardinality(DistinctStations))

\* The cut happens: more stations than n, one of the rows has no station name.
C1_Witness ==
    /\ Computed("top_stations")
    /\ topN > 0
    /\ Cardinality(DistinctStations) > topN
    /\ Len(top_stations) = topN
    /\ \E i \in 1..Len(df.rows) : df.rows[i]["start_station_name"] = NA

\* C2: the top-stations result is descending by trip count: each row's count
\* is at least the next row's, in both dashboards.
C2_TopStationsDescending ==
    Computed("top_stations")
        => \A i \in 1..(Len(top_stations) - 1) :
              top_stations[i][CountColumn].n >= top_stations[i + 1][CountColumn].n

\* The order of the counts reverses the order of the names groupby produced.
C2_Witness ==
    /\ Computed("top_stations")
    /\ script = "dash1"
    /\ Len(top_stations) = 2
    /\ top_stations[1]["start_station_name"] = Str("B")
    /\ top_stations[2]["start_station_name"] = Str("A")
    /\ top_stations[1]["trip_count"].n > top_stations[2]["trip_count"].n

\* C3: the trip counts of the daily series add up to the number of input trips
\* whose start date parses; no such trip is lost, none without a date is counted.
C3_DailyCountsSum ==
    Computed("daily_data")
        => SumColumn(daily_data, "trip_count") = Cardinality(ParseableTrips)

\* Trips without a usable date are left out, and a day without any
\* temperature keeps its row through the merge.
C3_Witness ==
    /\ Computed("daily_data")
    /\ script = "dash2"
    /\ "date" \in csv.columns
    /\ \E i \in 1..Len(csv.rows) : csv.rows[i]["date"] = Str("not-a-date")
    /\ \E i \in 1..Len(csv.rows) : csv.rows[i]["date"] = NA
    /\ \E i \in 1..Len(daily_data) : daily_data[i]["avgtemp"] = NA
    /\ SumColumn(daily_data, "trip_count") = 1

\* C4: the daily series has exactly one row per calendar day on which an input
\* trip starts, and its dates are strictly increasing.
C4_OneRowPerCalendarDay ==
    Computed("daily_data")
        => /\ Len(daily_data) = Cardinality(InputDays)
           /\ \A i \in 1..(Len(daily_data) - 1) :
                 Instant(daily_data[i]["date"]) < Instant(daily_data[i + 1]["date"])

\* C5, as claimed: the trip counts of the map aggregate and the rows missing a
\* required coordinate add up to the rows of the trip table.
C5_AllButMissingCoordinatesCounted ==
    Computed("df_map")
        => SumColumn(df_map, "trip_count") + Cardinality(RowsMissing(MapCoordinates))
              = Len(df.rows)

\* C5, amended: the trip counts of the map aggregate and the rows missing any
\* group key (a station name or a coordinate) add up to the rows of the trip
\* table; every output row has all its keys and counts the rows with those keys.
C5_AllButMissingKeysCounted ==
    Computed("df_map")
        => /\ SumColumn(df_map, "trip_count") + Cardinality(RowsMissing(Range(MapKeys)))
                = Len(df.rows)
           /\ \A g \in 1..Len(df_map) :
                 /\ \A c \in Range(MapKeys) : df_map[g][c] # NA
                 /\ df_map[g]["trip_count"].n =
                       Cardinality({i \in 1..Len(df.rows) :
                           \A c \in Range(MapKeys) : df.rows[i][c] = df_map[g][c]})

\* A row with its coordinates but no station name is left out of the map.
C5_Witness ==
    /\ Computed("df_map")
    /\ df_map # <<>>
    /\ \E i \in 1..Len(df.rows) :
          /\ i \in RowsMissing(Range(MapKeys))
          /\ i \notin RowsMissing(MapCoordinates)
    /\ RowsMissing(MapCoordinates) # {}

\* C6: computing the top-stations aggregate leaves the trip table as it was.
C6_TopStationsKeepsTable ==
    [][(pc = "bar" \/ (pc = "page" /\ page = "Most Popular Stations")) => df' = df]_vars

\* C7: a table with every column present never makes a run fail, whatever
\* its cells hold.
C7_PartialTableNeverFails ==
    (csv.readable /\ csv.columns = CsvColumns) => pc # "crashed"

\* C8: a CSV that cannot be read is reported and the run goes on to the footer.
C8_LoadErrorCaught ==
    (~csv.readable /\ pc # "load")
        => /\ pc # "crashed"
           /\ "Failed to load data" \in reports

\* C9: on an empty trip table no run fails and every aggregate stays empty.
C9_EmptyTable ==
    (/\ csv.readable
     /\ csv.rows = <<>>
     /\ script = "dash1" => {"date", "start_station_name", "avgTemp"} \subseteq csv.columns)
        => /\ pc # "crashed"
           /\ top_stations = <<>>
           /\ daily_data = <<>>
           /\ df_map = <<>>

\* A run over an empty table has rendered each page down to the footer.
C9_Witness ==
    /\ csv.readable
    /\ csv.rows = <<>>
    /\ footer
    /\ \/ script = "dash1" /\ computed = {"top_stations", "daily_data", "df_map"}
       \/ script = "dash2" /\ "No data available for analysis" \in reports

\* C10: a saved map file is never rewritten and, while it exists, dash1 never
\* computes the route aggregate; the file is written only by the map section
\* of a run that found none; the map section always goes on to the footer,
\* having shown the file's map or reported an error.
C10_SavedMapIsKept ==
    [][/\ mapFile # NoFile
          => /\ mapFile' = mapFile
             /\ (script' = "dash1" /\ Computed("df_map")') => Computed("df_map")
       /\ mapFile' # mapFile => (mapFile = NoFile /\ script = "dash1" /\ pc = "map")
       /\ (script = "dash1" /\ pc = "map")
          => /\ pc' = "footer"
             /\ \/ mapFile' # NoFile /\ displayed' = Shown(mapFile')
                \/ "Error loading Kepler map" \in reports'
       /\ (script = "dash1" /\ pc = "footer") => footer']_vars

\* A later run shows the saved map although the table now gives another one.
C10_Witness ==
    /\ script = "dash1"
    /\ footer
    /\ ~Computed("df_map")
    /\ mapFile # NoFile
    /\ displayed = Shown(mapFile)
    /\ mapFile.html # groupby_size(df.rows, RouteKeys, "trip_count")

====
